---- MODULE Spec2Model ----
(***************************************************************************)
(* A model of the pinterest-dl GUI pipeline:                               *)
(*   - the browser crawl loop, scrape_images.patched_scrape (src/gui.py),  *)
(*   - the download registry of _ScraperBase.download_media                *)
(*     (src/pinterest_dl/scrapers/scraper_base.py),                        *)
(*   - the resolution filter and the recursive visual search of            *)
(*     scrape_images (src/gui.py).                                         *)
(*   - one run of the browser path: the crawl, the filter, the download,   *)
(*   - the calls of scrape_images and search_images in one process: the    *)
(*     validation, the patches, the download batch, the download log,      *)
(*   - two download_media runs at a time under one download root,          *)
(*   - the enrichers add_captions_to_file and add_captions_to_meta.        *)
(* Each part is a state machine over its own variables; a specification    *)
(* runs one part and leaves the variables of the others at rest.           *)
(***************************************************************************)
EXTENDS Integers, Sequences, FiniteSets, TLC

(***************************************************************************)
(* Bounds of the model (not program constants).                            *)
(***************************************************************************)
MaxName == 2        \* distinct image files a page can show
MaxPin == 1         \* distinct pin ids a page can show
MaxNum == 2         \* largest target count num
MaxStale == 1       \* stale-element errors the page raises in a short run
MaxId == 2          \* distinct item ids of the remote source
MaxItems == 2       \* length of the media list of one run
MaxRuns == 3        \* pipeline runs on one download root
MaxRes == 2         \* largest width, height and minimum of the resolution filter
MaxImages == 2      \* length of the list given to the resolution filter
MaxDepth == 2       \* largest recurse_factor of a top-level scrape_images
MaxLimit == 2       \* largest limit; the related pins are numbered 1..MaxLimit
MaxBatch == 2       \* items of one download batch; the source URLs are 1..MaxBatch
MaxCalls == 2       \* scrape_images / search_images calls in one process
MaxStem == 2        \* distinct file stems of the items given to the enrichers
MaxEnrich == 2      \* length of the list given to an enricher
MaxEnrichCalls == 2 \* calls of the enrichers on one directory

(***************************************************************************)
(* Program constants.                                                      *)
(***************************************************************************)
ScrollCeiling == 800    \* while scroll_count < 800
StallThreshold == 10    \* if no_new_scrolls >= 10: break

VARIABLES
    \* ---- patched_scrape ----
    pc,              \* position in patched_scrape
    num,             \* parameter num
    ensure_alt,      \* parameter ensure_alt
    unique_results,  \* set of (upgraded) src values seen
    imgs_data,       \* list of PinterestMedia candidates
    scroll_count,
    no_new_scrolls,
    current_unique,  \* len(unique_results) at the start of the pass
    cur_id,          \* data-test-pin-id of the current div (0: no current div)
    names,           \* image files the page can show (the page's behaviour)
    staleCap,        \* stale-element errors the page may raise (the page's behaviour)
    stales,          \* history: stale-element errors raised so far
    passes,          \* history: passes of the while loop started
    sockErr,         \* history: a socket error was raised
    newAfterFirst,   \* history: a pass after the first appended a candidate
    \* ---- download_media and the browser-path download ----
    dpc,             \* position in download_media ("idle" between runs)
    remote,          \* the item numbers the remote source lists, in order
    idKind,          \* the Python type of PinterestMedia.id: "int" or "str"
    media,           \* parameter media: the PinterestMedia objects of the run
    registry,        \* the dict registry, in insertion order
    to_download,     \* indices into media of the items of to_download
    disk,            \* the media files that exist on disk
    regFile,         \* downloaded.json: text key -> recorded path
    submitted,       \* history: ids handed to download_concurrent by the last run
    runs,            \* history: runs started
    runKind,         \* history: the last run was "media" (download_media) or "browser"
    lastOk,          \* history: the last run returned normally
    deleted,         \* history: files deleted since the last normal return
    startOk,         \* history: lastOk when the last run started
    startDeleted,    \* history: deleted when the last run started
    startReg,        \* history: downloaded.json when the last run started
    fileShape,       \* what downloaded.json is: absent, an object (regFile), ...
    regType,         \* the Python type of the value json.load returned
    faults,          \* the faults the file system and the process can have
    failure,         \* how the last run failed ("none": it did not)
    startFailure,    \* history: failure when the last run started
    \* ---- the resolution filters ----
    images,          \* the list given to the filter: measured resolution, local file
    min_resolution,  \* (res_x, res_y)
    keptGui,         \* result of the filter of scrape_images, as indices into images
    keptPrune,       \* result of prune_images, as indices into images
    fileRes,         \* what the file of each image name measures (the remote)
    \* ---- the recursive visual search of scrape_images ----
    stack,           \* the active scrape_images calls, the innermost last
    limit,           \* parameter limit
    topDepth,        \* recurse_factor of the top-level call
    runCount,        \* history: pipeline runs performed
    outcomes,        \* what a pipeline run can meet (the source, the disk)
    session_state,   \* the keys 'error' and 'success' st.session_state holds
    \* ---- one process: the calls of scrape_images and search_images ----
    spc,             \* position: "idle" between calls, "downloading" in a batch
    dcPatches,       \* wrappers installed on Downloader.download_concurrent
    scrapePatched,   \* PinterestDriver.scrape is patched_scrape
    sessErr,         \* st.session_state['error'] ("none": not set)
    sessOk,          \* st.session_state['success'] is set
    args,            \* the arguments of the last call
    created,         \* history: the last call created a scraper
    invoked,         \* history: the last call invoked the downloader
    recursed,        \* history: the last call launched a recursive run
    propagated,      \* history: the last call raised to its caller
    batch,           \* the batch: the source URLs of imgs_data, in order
    failing,         \* the items of the batch whose download fails (the network)
    fail_fast,       \* fail_fast as the original download_concurrent receives it
    materialized,    \* items of the batch whose file is written
    failedRec,       \* items of the batch with a failure in the outcome set
    aborted,         \* download_concurrent raised
    log,             \* downloaded_urls.log of the project, a list of lines
    logBefore,       \* history: the log when the last call started
    calls,           \* history: calls made
    urlsSeen,        \* history: the source URLs met so far are 1..urlsSeen
    \* ---- two download_media runs at a time under one download root ----
    inst,            \* the two pipeline instances: position, media, registry, ...
    \* ---- add_captions_to_file and add_captions_to_meta ----
    epc,             \* "idle" between calls, "file" or "meta" inside the loop
    extension,       \* parameter extension of add_captions_to_file
    eTotal,          \* len(images)
    eLeft,           \* items the loop has yet to visit
    processed,       \* history: items the loop has visited
    eRaised,         \* history: the call raised
    eFailed,         \* history: a write of the call failed
    skipped,         \* history: the call skipped an item whose sidecar exists
    tagged,          \* history: items whose metadata the call has written
    sidecars,        \* the caption files of output_dir: (stem, extension) -> content
    ecalls           \* history: calls made

crawlVars == <<pc, num, ensure_alt, unique_results, imgs_data, scroll_count,
               no_new_scrolls, current_unique, cur_id,
               names, staleCap, stales, passes, sockErr, newAfterFirst>>

dlVars == <<dpc, remote, idKind, media, registry, to_download, disk, regFile,
            submitted, runs, runKind, lastOk, deleted, startOk, startDeleted,
            startReg, fileShape, regType, faults, failure, startFailure>>

pruneVars == <<images, min_resolution, keptGui, keptPrune, fileRes>>

recVars == <<stack, limit, topDepth, runCount, outcomes, session_state>>

sessVars == <<spc, dcPatches, scrapePatched, sessErr, sessOk, args, created,
              invoked, recursed, propagated, batch, failing, fail_fast,
              materialized, failedRec, aborted, log, logBefore, calls, urlsSeen>>

concVars == <<inst>>

enrichVars == <<epc, extension, eTotal, eLeft, processed, eRaised, eFailed,
                skipped, tagged, sidecars, ecalls>>

vars == <<crawlVars, dlVars, pruneVars, recVars, sessVars, concVars, enrichVars>>

nonCrawl == <<dlVars, pruneVars, recVars, sessVars, concVars, enrichVars>>
nonDl == <<crawlVars, pruneVars, recVars, sessVars, concVars, enrichVars>>
nonPrune == <<crawlVars, dlVars, recVars, sessVars, concVars, enrichVars>>
nonRec == <<crawlVars, dlVars, pruneVars, sessVars, concVars, enrichVars>>
nonSess == <<crawlVars, dlVars, pruneVars, recVars, concVars, enrichVars>>
nonEnrich == <<crawlVars, dlVars, pruneVars, recVars, sessVars, concVars>>

\* the value of a result list before its filter has run (no index is 0)
NotRun == <<0>>

\* the arguments of a call: the function, whether url (query) and project_name
\* are non-empty, use_browser, whether the cookies the session asks for are
\* there, whether recurse_factor > 0
NoArgs ==
    [fn |-> "none", url_ok |-> TRUE, name_ok |-> TRUE, use_browser |-> FALSE,
     cookies_ok |-> TRUE, recurse |-> FALSE]

\* no call of scrape_images or search_images
SessAtRest ==
    /\ spc = "rest"
    /\ dcPatches = 0
    /\ scrapePatched = FALSE
    /\ sessErr = "none"
    /\ sessOk = FALSE
    /\ args = NoArgs
    /\ created = FALSE
    /\ invoked = FALSE
    /\ recursed = FALSE
    /\ propagated = FALSE
    /\ batch = <<>>
    /\ failing = {}
    /\ fail_fast = FALSE
    /\ materialized = {}
    /\ failedRec = {}
    /\ aborted = FALSE
    /\ log = <<>>
    /\ logBefore = <<>>
    /\ calls = 0
    /\ urlsSeen = 0

\* the parts added to the model after the first four, at rest
\* no call of an enricher
EnrichAtRest ==
    /\ epc = "rest"
    /\ extension = "txt"
    /\ eTotal = 0
    /\ eLeft = 0
    /\ processed = 0
    /\ eRaised = FALSE
    /\ eFailed = FALSE
    /\ skipped = FALSE
    /\ tagged = 0
    /\ sidecars = <<>>
    /\ ecalls = 0

ExtraAtRest == SessAtRest /\ inst = <<>> /\ EnrichAtRest

\* the resolution filters at rest
PruneAtRest ==
    /\ images = <<>>
    /\ min_resolution = <<0, 0>>
    /\ keptGui = NotRun
    /\ keptPrune = NotRun
    /\ fileRes = <<>>

\* no scrape_images call
RecAtRest ==
    /\ stack = <<>>
    /\ limit = 0
    /\ topDepth = 0
    /\ runCount = 0
    /\ outcomes = {}
    /\ session_state = {}

(***************************************************************************)
(* The crawl loop: scrape_images.patched_scrape.                           *)
(***************************************************************************)

\* The src attribute of an <img>: absent, a thumbnail URL (/236x/), or a
\* full-resolution URL (/originals/).
Images == [tier : {"none"}, name : {0}, alt : BOOLEAN]
          \cup [tier : {"236x", "originals"}, name : names, alt : BOOLEAN]

\* src.replace("/236x/", "/originals/")
Upgrade(src) == IF src.tier = "236x" THEN [src EXCEPT !.tier = "originals"] ELSE src

\* src and "/236x/" in src
IsThumb(src) == src.tier = "236x"

Src(image) == [tier |-> image.tier, name |-> image.name]

\* the download part at rest
DlAtRest ==
    /\ dpc = "idle"
    /\ remote = <<>>
    /\ idKind = "int"
    /\ media = <<>>
    /\ registry = <<>>
    /\ to_download = <<>>
    /\ disk = {}
    /\ regFile = <<>>
    /\ submitted = <<>>
    /\ runs = 0
    /\ runKind = "none"
    /\ lastOk = FALSE
    /\ deleted = {}
    /\ startOk = FALSE
    /\ startDeleted = {}
    /\ startReg = <<>>
    /\ fileShape = "absent"
    /\ regType = "dict"
    /\ faults = {}
    /\ failure = "none"
    /\ startFailure = "none"

\* the crawl loop at rest
CrawlAtRest ==
    /\ pc = "rest"
    /\ num = 0
    /\ ensure_alt = FALSE
    /\ unique_results = {}
    /\ imgs_data = <<>>
    /\ scroll_count = 0
    /\ no_new_scrolls = 0
    /\ current_unique = 0
    /\ cur_id = 0
    /\ names = {}
    /\ staleCap = 0
    /\ stales = 0
    /\ passes = 0
    /\ sockErr = FALSE
    /\ newAfterFirst = FALSE

\* patched_scrape is entered: the locals before self.webdriver.get(url)
CrawlStart(nameSet, nums, alts, budget) ==
    /\ pc = "nav"
    /\ num \in nums
    /\ ensure_alt \in alts
    /\ unique_results = {}
    /\ imgs_data = <<>>
    /\ scroll_count = 0
    /\ no_new_scrolls = 0
    /\ current_unique = 0
    /\ cur_id = 0
    /\ names = nameSet
    /\ staleCap = budget
    /\ stales = 0
    /\ passes = 0
    /\ sockErr = FALSE
    /\ newAfterFirst = FALSE

InitCrawlWith(nameSet, nums, alts, budget) ==
    /\ CrawlStart(nameSet, nums, alts, budget)
    /\ DlAtRest
    /\ PruneAtRest
    /\ RecAtRest
    /\ ExtraAtRest

\* a short run: any target count, a page that raises few stale-element errors
InitCrawl == InitCrawlWith(1..MaxName, 0..MaxNum, BOOLEAN, MaxStale)

\* a long run: a page whose images carry no thumbnail src and that can raise
\* stale-element errors on more passes than the ceiling allows
InitCrawlLong == InitCrawlWith({}, {1}, {FALSE}, ScrollCeiling + 1)

\* self.webdriver.get(url)
Navigate ==
    /\ pc = "nav"
    /\ pc' = "loop"
    /\ UNCHANGED nonCrawl
    /\ UNCHANGED <<num, ensure_alt, unique_results, imgs_data, scroll_count,
                   no_new_scrolls, current_unique, cur_id,
                   names, staleCap, stales, passes, sockErr, newAfterFirst>>

\* while scroll_count < 800: current_unique = len(unique_results); divs = find_elements(...)
BeginPass ==
    /\ pc = "loop"
    /\ IF scroll_count < ScrollCeiling
         THEN /\ pc' = "divs"
              /\ current_unique' = Cardinality(unique_results)
              /\ passes' = passes + 1
         ELSE /\ pc' = "done"
              /\ UNCHANGED <<current_unique, passes>>
    /\ UNCHANGED nonCrawl
    /\ UNCHANGED <<num, ensure_alt, unique_results, imgs_data, scroll_count,
                   no_new_scrolls, cur_id, names, staleCap, stales,
                   sockErr, newAfterFirst>>

\* for div in divs: the list (of any length) is exhausted or yields one more
\* div; the target test, find_elements(img), the pin id
NextDiv ==
    /\ pc = "divs"
    /\ \E more \in BOOLEAN, id \in 0..MaxPin :
          IF ~more \/ Cardinality(unique_results) >= num
            THEN /\ pc' = "post"
                 /\ UNCHANGED cur_id
            ELSE IF id = 0
                   THEN /\ pc' = "divs"        \* if not id: continue
                        /\ UNCHANGED cur_id
                   ELSE /\ pc' = "imgs"
                        /\ cur_id' = id
    /\ UNCHANGED nonCrawl
    /\ UNCHANGED <<num, ensure_alt, unique_results, imgs_data, scroll_count,
                   no_new_scrolls, current_unique, names, staleCap, stales, passes,
                   sockErr, newAfterFirst>>

\* PinterestMedia(int(id), src, alt, href, resolution=(0, 0)); alt and href are
\* carried along unread by the pipeline and are left out of the record
Candidate(id, src) == [id |-> id, src |-> src, resolution |-> <<0, 0>>]

\* the inner loop without its break
InnerBreak_NoBreak(uniq) == FALSE

\* the inner break: if len(unique_results) >= num: break
InnerBreak(uniq) == Cardinality(uniq) >= num

\* the test that guards the append: if src not in unique_results
IsNew(id, src) == src \notin unique_results

\* the image files are named in the order in which the loop first collects
\* them: a src that is new to unique_results has the name after the names
\* collected so far
NamedInOrder(src) ==
    src \in unique_results \/ src.name = Cardinality(unique_results) + 1

\* for image in images: the list (of any length) is exhausted or yields one
\* more image
NextImage ==
    /\ pc = "imgs"
    /\ \E more \in BOOLEAN, image \in Images :
          LET src == Upgrade(Src(image)) IN
          /\ (more /\ IsThumb(Src(image)) /\ ~(ensure_alt /\ ~image.alt))
                => NamedInOrder(src)
          /\ IF ~more
               THEN /\ pc' = "divs"
                    /\ cur_id' = 0
                    /\ UNCHANGED <<unique_results, imgs_data, newAfterFirst>>
               ELSE IF /\ ~(ensure_alt /\ ~image.alt)
                       /\ IsThumb(Src(image))
                       /\ IsNew(cur_id, src)
                      THEN /\ unique_results' = unique_results \cup {src}
                           /\ imgs_data' = Append(imgs_data, Candidate(cur_id, src))
                           /\ newAfterFirst' = (newAfterFirst \/ passes > 1)
                           /\ IF InnerBreak(unique_results')
                                THEN pc' = "divs" /\ cur_id' = 0
                                ELSE pc' = "imgs" /\ UNCHANGED cur_id
                      ELSE /\ pc' = "imgs"
                           /\ UNCHANGED <<unique_results, imgs_data, newAfterFirst,
                                          cur_id>>
    /\ UNCHANGED nonCrawl
    /\ UNCHANGED <<num, ensure_alt, scroll_count, no_new_scrolls, current_unique,
                   names, staleCap, stales, passes, sockErr>>

\* a stall counter that is reset by a pass that added nothing
StallCount_ResetOnStall(newInScroll, noNew) == IF newInScroll = 0 THEN 0 ELSE noNew + 1

\* the stall counter after the scan
StallCount(newInScroll, noNew) == IF newInScroll = 0 THEN noNew + 1 ELSE 0

\* new_in_scroll ... if no_new_scrolls >= 10: break
PostScan ==
    /\ pc = "post"
    /\ no_new_scrolls' =
          StallCount(Cardinality(unique_results) - current_unique, no_new_scrolls)
    /\ pc' = IF no_new_scrolls' >= StallThreshold THEN "done" ELSE "scroll"
    /\ UNCHANGED nonCrawl
    /\ UNCHANGED <<num, ensure_alt, unique_results, imgs_data, scroll_count,
                   current_unique, cur_id, names,
                   staleCap, stales, passes, sockErr, newAfterFirst>>

\* scroll_count after a completed scroll
ScrollStep(n) == n + 1

\* dummy.send_keys(Keys.PAGE_DOWN); scroll_count += 1
Scroll ==
    /\ pc = "scroll"
    /\ scroll_count' = ScrollStep(scroll_count)
    /\ pc' = "more"
    /\ UNCHANGED nonCrawl
    /\ UNCHANGED <<num, ensure_alt, unique_results, imgs_data, no_new_scrolls,
                   current_unique, cur_id, names,
                   staleCap, stales, passes, sockErr, newAfterFirst>>


\* where the loop goes when the load-more step raises: except: pass
AfterLoadMoreError == "loop"

\* try: load_more = find_element(...); load_more.click() except: pass
LoadMore ==
    /\ pc = "more"
    /\ \E outcome \in {"clicked", "absent", "socket"} :
          IF outcome = "socket"
            THEN /\ pc' = AfterLoadMoreError
                 /\ sockErr' = TRUE
            ELSE /\ pc' = "loop"
                 /\ UNCHANGED sockErr
    /\ UNCHANGED nonCrawl
    /\ UNCHANGED <<num, ensure_alt, unique_results, imgs_data, scroll_count,
                   no_new_scrolls, current_unique, cur_id,
                   names, staleCap, stales, passes, newAfterFirst>>

\* the positions of the pass body outside the load-more try
InPassBody == pc \in {"divs", "imgs", "scroll"}

\* where the loop goes after except StaleElementReferenceException
AfterStale == "loop"

\* except StaleElementReferenceException: the pass ends, the while test is next
StaleElement ==
    /\ InPassBody
    /\ stales < staleCap
    /\ stales' = stales + 1
    /\ pc' = AfterStale
    /\ cur_id' = 0
    /\ UNCHANGED nonCrawl
    /\ UNCHANGED <<num, ensure_alt, unique_results, imgs_data, scroll_count,
                   no_new_scrolls, current_unique, names, staleCap, passes,
                   sockErr, newAfterFirst>>

\* except (socket.error, socket.timeout): print; finally; return imgs_data
SocketError ==
    /\ pc = "nav" \/ InPassBody
    /\ pc' = "done"
    /\ sockErr' = TRUE
    /\ cur_id' = 0
    /\ UNCHANGED nonCrawl
    /\ UNCHANGED <<num, ensure_alt, unique_results, imgs_data, scroll_count,
                   no_new_scrolls, current_unique, names, staleCap, stales,
                   passes, newAfterFirst>>

\* any other exception of a webdriver call (e.g. NoSuchElementException of
\* div.find_element(By.TAG_NAME, "a")) leaves patched_scrape through finally
OtherError ==
    /\ pc = "nav" \/ InPassBody
    /\ pc' = "raised"
    /\ cur_id' = 0
    /\ UNCHANGED nonCrawl
    /\ UNCHANGED <<num, ensure_alt, unique_results, imgs_data, scroll_count,
                   no_new_scrolls, current_unique, names, staleCap, stales,
                   passes, sockErr, newAfterFirst>>

NextCrawl ==
    \/ Navigate
    \/ BeginPass
    \/ NextDiv
    \/ NextImage
    \/ PostScan
    \/ Scroll
    \/ LoadMore
    \/ StaleElement
    \/ SocketError
    \/ OtherError

SpecCrawl == InitCrawl /\ [][NextCrawl]_vars

SpecCrawlLong == InitCrawlLong /\ [][NextCrawl]_vars

Spec == SpecCrawl

(***************************************************************************)
(* The download registry: _ScraperBase.download_media, and the download    *)
(* step of the browser path of scrape_images.                              *)
(***************************************************************************)

\* the one project directory of these runs
ProjectDir == "project"

NoPath == [dir |-> "", file |-> 0]      \* local_path not set

\* PinterestMedia.id of item number n
ItemId(kind, n) == [kind |-> kind, n |-> n]

\* the media list a run is given: fresh objects for the remote items
FreshMedia(kind) ==
    [i \in 1..Len(remote) |-> [id |-> ItemId(kind, remote[i]), local_path |-> NoPath]]

\* the file download_concurrent writes for an item in output_dir
FileOf(dir, id) == [dir |-> dir, file |-> id.n]

\* Path.exists()
PathExists(p) == p \in disk

\* dict operations; a dict is the sequence of its <<key, value>> items in
\* insertion order
HasKey(d, k) == \E i \in 1..Len(d) : d[i][1] = k
Get(d, k) == d[CHOOSE i \in 1..Len(d) : d[i][1] = k][2]
Del(d, k) == SelectSeq(d, LAMBDA e : e[1] # k)
Put(d, k, v) ==
    IF HasKey(d, k)
      THEN [i \in 1..Len(d) |-> IF d[i][1] = k THEN <<k, v>> ELSE d[i]]
      ELSE Append(d, <<k, v>>)

\* json.dump writes every key as text: the int 7 and the str "7" both as "7";
\* of two items written under one text the later one is what json.load keeps
KeyText(k) == k.n
JsonDump(d) ==
    [t \in {KeyText(d[i][1]) : i \in 1..Len(d)} |->
        LET last == CHOOSE i \in 1..Len(d) :
                       /\ KeyText(d[i][1]) = t
                       /\ \A j \in 1..Len(d) : KeyText(d[j][1]) = t => j <= i
        IN d[last][2]]

RECURSIVE SetToSeq(_)
SetToSeq(S) == IF S = {} THEN <<>>
               ELSE LET x == CHOOSE y \in S : \A z \in S : y <= z
                    IN <<x>> \o SetToSeq(S \ {x})

\* json.load: every key of the dict is a str
LoadedFrom(file) ==
    LET keys == SetToSeq(DOMAIN file)
    IN [i \in 1..Len(keys) |-> <<ItemId("str", keys[i]), file[keys[i]]>>]

\* the states downloaded.json can be in: absent; an object of entries; not
\* valid JSON (empty, cut short); not openable; not valid UTF-8; valid JSON
\* that is an array, a number or null, a string (none of them holding an id)
FileShapes == {"absent", "dict", "invalid", "unreadable", "undecodable",
               "list", "scalar", "text"}

\* a value of the object that is not itself an object
BadValue == [dir |-> "?", file |-> 0]

\* the objects downloaded.json can hold before the first run: entries for
\* some of the ids, each a path of the project or not an object
RegFiles ==
    UNION {[keys -> {BadValue} \cup {[dir |-> ProjectDir, file |-> n] : n \in 1..MaxId}] :
              keys \in SUBSET (1..MaxId)}

\* a load that lets the JSON error through as well
LoadFails_OnInvalid(shape) == shape \in {"undecodable", "invalid"}

\* json.load raises an exception that except (json.JSONDecodeError, IOError)
\* does not catch: the UnicodeDecodeError of a file that is not UTF-8
LoadFails(shape) == shape = "undecodable"

\* the type of what _load_downloaded_registry returns: {} when the file is
\* absent or the exception is caught, else whatever json.load returns
LoadedType(shape) ==
    IF shape \in {"list", "scalar", "text"} THEN shape ELSE "dict"

\* _load_downloaded_registry
LoadRegistry == IF fileShape = "dict" THEN LoadedFrom(regFile) ELSE <<>>

\* item.id in registry raises TypeError: a number or null is not iterable,
\* and a str does not take an int on the left of in
MembershipRaises(type, kind) ==
    \/ type = "scalar"
    \/ type = "text" /\ kind = "int"

\* registry[item.id] = {...} raises on an array (IndexError or TypeError) and
\* on a str (TypeError)
AssignRaises(type) == type \in {"list", "text"}

\* a filter that trusts every registry entry
StillOnDisk_Trusting(path) == TRUE

\* the test that lets the filter skip an item: registered_path.exists()
StillOnDisk(path) == PathExists(path)

\* the filter loop of download_media, items 1..k done
\* (err: the loop was left by an exception)
RECURSIVE Filtered(_)
Filtered(k) ==
    IF k = 0
      THEN [reg |-> registry, media |-> media, todo |-> <<>>, err |-> FALSE]
      ELSE LET st == Filtered(k - 1)
               item == st.media[k]
           IN IF st.err
                THEN st
                ELSE IF MembershipRaises(regType, item.id.kind)
                THEN [st EXCEPT !.err = TRUE]
                ELSE IF HasKey(st.reg, item.id)
                THEN LET registered_path == Get(st.reg, item.id)
                     IN IF registered_path = BadValue
                          THEN [st EXCEPT !.err = TRUE]      \* no attribute get
                          ELSE IF StillOnDisk(registered_path)
                          THEN [st EXCEPT !.media[k].local_path = registered_path]
                          ELSE [st EXCEPT !.reg = Del(st.reg, item.id),
                                          !.todo = Append(st.todo, k)]
                ELSE [st EXCEPT !.todo = Append(st.todo, k)]

\* the ids of the items of a list of indices into m
IdsOf(m, idx) == [j \in 1..Len(idx) |-> m[idx[j]].id]

InitDlWith(shapes, faultSet) ==
    /\ dpc = "idle"
    /\ remote \in UNION {[1..len -> 1..MaxId] : len \in 1..MaxItems}
    /\ idKind \in {"int", "str"}
    /\ media = <<>>
    /\ registry = <<>>
    /\ to_download = <<>>
    /\ disk = {}
    /\ fileShape \in shapes
    /\ regFile \in (IF fileShape = "dict" THEN RegFiles \ {<<>>} ELSE {<<>>})
    /\ regType = "dict"
    /\ faults = faultSet
    /\ failure = "none"
    /\ startFailure = "none"
    /\ submitted = <<>>
    /\ runs = 0
    /\ runKind = "none"
    /\ lastOk = FALSE
    /\ deleted = {}
    /\ startOk = FALSE
    /\ startDeleted = {}
    /\ startReg = <<>>
    /\ CrawlAtRest
    /\ PruneAtRest
    /\ RecAtRest
    /\ ExtraAtRest

\* no downloaded.json yet, no fault
InitDl == InitDlWith({"absent"}, {})

\* no downloaded.json yet; the process can crash after the downloads
InitCrash == InitDlWith({"absent"}, {"crash"})

\* downloaded.json in any state; the write of the registry can fail
InitRegIO == InitDlWith(FileShapes, {"save"})

\* download_media is called: mkdir, registry = _load_downloaded_registry(output_dir)
LoadStep ==
    /\ dpc = "idle"
    /\ runs < MaxRuns
    /\ runs' = runs + 1
    /\ media' = FreshMedia(idKind)
    /\ to_download' = <<>>
    /\ submitted' = <<>>
    /\ runKind' = "media"
    /\ startOk' = lastOk
    /\ startDeleted' = deleted
    /\ startReg' = regFile
    /\ startFailure' = failure
    /\ lastOk' = FALSE
    /\ IF LoadFails(fileShape)
         THEN /\ failure' = "registry"
              /\ dpc' = "idle"
              /\ UNCHANGED <<registry, regType>>
         ELSE /\ failure' = "none"
              /\ dpc' = "filter"
              /\ registry' = LoadRegistry
              /\ regType' = LoadedType(fileShape)
    /\ UNCHANGED nonDl
    /\ UNCHANGED <<remote, idKind, disk, regFile, deleted, fileShape, faults>>

\* a normal return of the run
ReturnOk == /\ lastOk' = TRUE
            /\ deleted' = {}

\* the filter loop; if not to_download: return media
FilterStep ==
    /\ dpc = "filter"
    /\ LET st == Filtered(Len(media)) IN
       /\ registry' = st.reg
       /\ media' = st.media
       /\ to_download' = st.todo
       /\ IF st.err
            THEN /\ dpc' = "idle"
                 /\ failure' = "registry"
                 /\ UNCHANGED <<lastOk, deleted>>
            ELSE /\ UNCHANGED failure
                 /\ IF st.todo = <<>>
                      THEN dpc' = "idle" /\ ReturnOk
                      ELSE dpc' = "download" /\ UNCHANGED <<lastOk, deleted>>
    /\ UNCHANGED nonDl
    /\ UNCHANGED <<remote, idKind, disk, regFile, submitted, runs, runKind,
                   startOk, startDeleted, startReg, fileShape, regType, faults,
                   startFailure>>

\* a loop that is left after its first item
Recorded_FirstOnly(j) ==
    IF j = 0
      THEN [reg |-> registry, media |-> media]
      ELSE LET k == to_download[1]
               path == FileOf(ProjectDir, media[k].id)
           IN [reg |-> Put(registry, media[k].id, path),
               media |-> [media EXCEPT ![k].local_path = path]]

\* for item, path in zip(to_download, local_paths): set_local_path, registry[item.id] = ...
RECURSIVE Recorded(_)
Recorded(j) ==
    IF j = 0
      THEN [reg |-> registry, media |-> media]
      ELSE LET st == Recorded(j - 1)
               k == to_download[j]
               path == FileOf(ProjectDir, media[k].id)
           IN [reg |-> Put(st.reg, media[k].id, path),
               media |-> [st.media EXCEPT ![k].local_path = path]]

\* what _save_downloaded_registry leaves in downloaded.json
SavedFile(reg) == JsonDump(reg)

\* dl.download_concurrent(to_download, ...) returns the local paths; the loop
\* over zip(to_download, local_paths); _save_downloaded_registry; or
\* download_concurrent raises and download_media re-raises
\* with open(registry_path, "w"): json.dump(...) except IOError: the file as
\* written in full; as it was when open fails; cut short when the write
\* fails or the process dies in it
WrittenFile(reg, how) ==
    IF how = "full" THEN [shape |-> "dict", content |-> SavedFile(reg)]
    ELSE IF how = "not opened" THEN [shape |-> fileShape, content |-> regFile]
    ELSE [shape |-> "invalid", content |-> <<>>]

\* how the part of download_media after the filter can end
DownloadOutcomes ==
    {"ok", "raise"}
    \cup (IF "save" \in faults THEN {"open fails", "write fails"} ELSE {})
    \cup (IF "crash" \in faults THEN {"crash before save", "crash in save"} ELSE {})

\* what the save does to the file in each of them
SaveOf(outcome) ==
    IF outcome = "ok" THEN "full"
    ELSE IF outcome \in {"open fails", "crash before save"} THEN "not opened"
    ELSE "cut"

\* download_media returns media: the IOError of the save is caught
ReturnsMedia(outcome) == outcome \in {"ok", "open fails", "write fails"}

FailureOf(outcome) ==
    IF outcome = "ok" THEN "none"
    ELSE IF outcome \in {"open fails", "write fails"} THEN "save"
    ELSE "crash"

\* an except clause that saves the registry before it re-raises
FileAfterRaise_Saved(reg) == [shape |-> "dict", content |-> SavedFile(reg)]

\* except Exception as e: logger.error(...); raise: the save is not reached
FileAfterRaise(reg) == [shape |-> fileShape, content |-> regFile]

DownloadStep ==
    /\ dpc = "download"
    /\ submitted' = IdsOf(media, to_download)
    /\ \E outcome \in DownloadOutcomes :
          IF outcome = "raise"
            THEN /\ failure' = "download"
                 /\ regFile' = FileAfterRaise(registry).content
                 /\ fileShape' = FileAfterRaise(registry).shape
                 /\ UNCHANGED <<disk, registry, media, lastOk, deleted>>
            ELSE /\ disk' = disk \cup {FileOf(ProjectDir, media[to_download[j]].id) :
                                          j \in 1..Len(to_download)}
                 /\ IF AssignRaises(regType)
                      THEN /\ failure' = "registry"
                           /\ media' = Recorded(1).media
                           /\ UNCHANGED <<registry, regFile, fileShape, lastOk,
                                          deleted>>
                      ELSE LET st == Recorded(Len(to_download))
                               file == WrittenFile(st.reg, SaveOf(outcome))
                           IN /\ registry' = st.reg
                              /\ media' = st.media
                              /\ regFile' = file.content
                              /\ fileShape' = file.shape
                              /\ failure' = FailureOf(outcome)
                              /\ IF ReturnsMedia(outcome)
                                   THEN ReturnOk
                                   ELSE UNCHANGED <<lastOk, deleted>>
    /\ dpc' = "idle"
    /\ UNCHANGED nonDl
    /\ UNCHANGED <<remote, idKind, to_download, runs, runKind, startOk,
                   startDeleted, startReg, regType, faults, startFailure>>

\* scrape_images with use_browser: the crawled candidates (ids are int(id)),
\* less the repeated ids, go to downloader.download_concurrent as they are
BrowserItems ==
    LET m == FreshMedia("int")
        first == {i \in 1..Len(m) : \A j \in 1..(i - 1) : m[j].id # m[i].id}
    IN [j \in 1..Cardinality(first) |->
          m[CHOOSE i \in first : Cardinality({h \in first : h <= i}) = j]]

\* the download step of the browser path: if imgs_data: try download_concurrent
\* except Exception: st.session_state['error'] = ...
BrowserDownload ==
    /\ dpc = "idle"
    /\ runs < MaxRuns
    /\ runs' = runs + 1
    /\ runKind' = "browser"
    /\ startOk' = lastOk
    /\ startDeleted' = deleted
    /\ startReg' = regFile
    /\ startFailure' = failure
    /\ LET items == BrowserItems IN
       /\ media' = items
       /\ submitted' = [j \in 1..Len(items) |-> items[j].id]
       /\ \E outcome \in {"ok", "raise"} :
             IF outcome = "ok"
               THEN /\ disk' = disk \cup {FileOf(ProjectDir, items[j].id) :
                                             j \in 1..Len(items)}
                    /\ failure' = "none"
                    /\ ReturnOk
               ELSE /\ lastOk' = FALSE
                    /\ failure' = "download"
                    /\ UNCHANGED <<disk, deleted>>
    /\ UNCHANGED nonDl
    /\ UNCHANGED <<dpc, remote, idKind, registry, to_download, regFile,
                   fileShape, regType, faults>>

\* between two runs somebody deletes a downloaded file
DeleteFile ==
    /\ dpc = "idle"
    /\ \E p \in disk :
          /\ disk' = disk \ {p}
          /\ deleted' = deleted \cup {p}
    /\ UNCHANGED nonDl
    /\ UNCHANGED <<dpc, remote, idKind, media, registry, to_download, regFile,
                   submitted, runs, runKind, lastOk, startOk, startDeleted,
                   startReg, fileShape, regType, faults, failure, startFailure>>

NextDl ==
    \/ LoadStep
    \/ FilterStep
    \/ DownloadStep
    \/ BrowserDownload
    \/ DeleteFile

SpecDl == InitDl /\ [][NextDl]_vars

SpecCrash == InitCrash /\ [][NextDl]_vars

SpecRegIO == InitRegIO /\ [][NextDl]_vars

(***************************************************************************)
(* Two pipeline instances, each with its own project directory under one   *)
(* download root, running download_media at the same time. Both use        *)
(* output_dir.parent / "downloaded.json".                                  *)
(***************************************************************************)

Instances == {1, 2}

\* output_dir of an instance
ProjectOf(p) == IF p = 1 THEN "projectA" ELSE "projectB"

\* the media list of an instance: fresh objects for the item numbers q
MediaOf(kind, q) ==
    [i \in 1..Len(q) |-> [id |-> ItemId(kind, q[i]), local_path |-> NoPath]]

InitConc ==
    /\ dpc = "idle"
    /\ remote = <<>>
    /\ idKind \in {"int", "str"}
    /\ media = <<>>
    /\ registry = <<>>
    /\ to_download = <<>>
    /\ disk = {}
    /\ regFile = <<>>
    /\ submitted = <<>>
    /\ runs = 0
    /\ runKind = "none"
    /\ lastOk = FALSE
    /\ deleted = {}
    /\ startOk = FALSE
    /\ startDeleted = {}
    /\ startReg = <<>>
    /\ fileShape = "absent"
    /\ regType = "dict"
    /\ faults = {}
    /\ failure = "none"
    /\ startFailure = "none"
    /\ \E q1, q2 \in UNION {[1..len -> 1..MaxId] : len \in 1..MaxItems} :
          inst = [p \in Instances |->
                    [pc |-> "idle",
                     media |-> MediaOf(idKind, IF p = 1 THEN q1 ELSE q2),
                     registry |-> <<>>,
                     to_download |-> <<>>,
                     runs |-> 0,
                     wrote |-> {}]]
    /\ CrawlAtRest
    /\ PruneAtRest
    /\ RecAtRest
    /\ SessAtRest
    /\ EnrichAtRest

\* what an instance's step leaves alone
ConcFrame ==
    /\ UNCHANGED <<crawlVars, pruneVars, recVars, sessVars, enrichVars>>
    /\ UNCHANGED <<dpc, remote, idKind, media, registry, to_download, submitted,
                   runs, runKind, lastOk, deleted, startOk, startDeleted,
                   startReg, regType, faults, failure, startFailure>>

\* instance p calls download_media: registry = _load_downloaded_registry(output_dir)
ConcLoad(p) ==
    /\ inst[p].pc = "idle"
    /\ inst[p].runs < MaxRuns
    /\ inst' = [inst EXCEPT ![p].pc = "filter",
                            ![p].runs = @ + 1,
                            ![p].registry = LoadRegistry,
                            ![p].to_download = <<>>]
    /\ UNCHANGED <<disk, regFile, fileShape>>
    /\ ConcFrame

\* the filter loop of instance p, items 1..k done
RECURSIVE ConcFiltered(_, _)
ConcFiltered(p, k) ==
    IF k = 0
      THEN [reg |-> inst[p].registry, media |-> inst[p].media, todo |-> <<>>]
      ELSE LET st == ConcFiltered(p, k - 1)
               item == st.media[k]
           IN IF HasKey(st.reg, item.id)
                THEN LET registered_path == Get(st.reg, item.id)
                     IN IF StillOnDisk(registered_path)
                          THEN [st EXCEPT !.media[k].local_path = registered_path]
                          ELSE [st EXCEPT !.reg = Del(st.reg, item.id),
                                          !.todo = Append(st.todo, k)]
                ELSE [st EXCEPT !.todo = Append(st.todo, k)]

\* the filter loop of instance p; if not to_download: return media
ConcFilter(p) ==
    /\ inst[p].pc = "filter"
    /\ LET st == ConcFiltered(p, Len(inst[p].media)) IN
       inst' = [inst EXCEPT ![p].registry = st.reg,
                            ![p].media = st.media,
                            ![p].to_download = st.todo,
                            ![p].pc = IF st.todo = <<>> THEN "idle" ELSE "download"]
    /\ UNCHANGED <<disk, regFile, fileShape>>
    /\ ConcFrame

\* the record loop of instance p, items 1..j of to_download done
RECURSIVE ConcRecorded(_, _)
ConcRecorded(p, j) ==
    IF j = 0
      THEN [reg |-> inst[p].registry, media |-> inst[p].media]
      ELSE LET st == ConcRecorded(p, j - 1)
               k == inst[p].to_download[j]
               path == FileOf(ProjectOf(p), inst[p].media[k].id)
           IN [reg |-> Put(st.reg, inst[p].media[k].id, path),
               media |-> [st.media EXCEPT ![k].local_path = path]]

\* download_concurrent of instance p returns, and the loop over
\* zip(to_download, local_paths) runs; or download_concurrent raises
ConcDownload(p) ==
    /\ inst[p].pc = "download"
    /\ \E outcome \in {"ok", "raise"} :
          IF outcome = "ok"
            THEN /\ disk' = disk \cup {FileOf(ProjectOf(p), inst[p].media[inst[p].to_download[j]].id) :
                                          j \in 1..Len(inst[p].to_download)}
                 /\ LET st == ConcRecorded(p, Len(inst[p].to_download)) IN
                    inst' = [inst EXCEPT ![p].registry = st.reg,
                                         ![p].media = st.media,
                                         ![p].pc = "save"]
            ELSE /\ inst' = [inst EXCEPT ![p].pc = "idle"]
                 /\ UNCHANGED disk
    /\ UNCHANGED <<regFile, fileShape>>
    /\ ConcFrame

\* _save_downloaded_registry(output_dir, registry) of instance p; return media
ConcSave(p) ==
    /\ inst[p].pc = "save"
    /\ regFile' = SavedFile(inst[p].registry)
    /\ fileShape' = "dict"
    /\ inst' = [inst EXCEPT ![p].pc = "idle",
                            ![p].wrote = @ \cup {KeyText(inst[p].media[inst[p].to_download[j]].id) :
                                                    j \in 1..Len(inst[p].to_download)}]
    /\ UNCHANGED disk
    /\ ConcFrame

NextConc ==
    \E p \in Instances :
       \/ ConcLoad(p)
       \/ ConcFilter(p)
       \/ ConcDownload(p)
       \/ ConcSave(p)

SpecConc == InitConc /\ [][NextConc]_vars

(***************************************************************************)
(* The resolution filters: the filter of scrape_images (browser path) and  *)
(* _ScraperBase.prune_images.                                              *)
(***************************************************************************)

Resolutions == (0..MaxRes) \X (0..MaxRes)

ImageRecords == [resolution : Resolutions, has_local : BOOLEAN]

InitPrune ==
    /\ images \in UNION {[1..len -> ImageRecords] : len \in 1..MaxImages}
    /\ min_resolution \in Resolutions
    /\ keptGui = NotRun
    /\ keptPrune = NotRun
    /\ fileRes = <<>>
    /\ CrawlAtRest
    /\ DlAtRest
    /\ RecAtRest
    /\ ExtraAtRest

\* a comparison that drops the resolution equal to the minimum
MeetsMinimum_Strict(res, res_x, res_y) == res[1] > res_x /\ res[2] > res_y

\* img.resolution[0] >= res_x and img.resolution[1] >= res_y
MeetsMinimum(res, res_x, res_y) == res[1] >= res_x /\ res[2] >= res_y

\* if res_x > 0 or res_y > 0: imgs_data = [img for img in imgs_data if ...]
\* (the indices of the items kept, in list order)
FilterByResolution(imgs, res_x, res_y) ==
    IF res_x > 0 \/ res_y > 0
      THEN SetToSeq({k \in 1..Len(imgs) :
                         MeetsMinimum(imgs[k].resolution, res_x, res_y)})
      ELSE [k \in 1..Len(imgs) |-> k]

\* PinterestMedia.prune_local: an item passes iff both dimensions of its
\* measured resolution reach the minimum; an item without a local file is
\* dropped unless both minimums are 0
PruneLocal(img, minimum) ==
    IF img.has_local
      THEN img.resolution[1] >= minimum[1] /\ img.resolution[2] >= minimum[2]
      ELSE minimum = <<0, 0>>

\* prune_images: kept = [img for img in images if img.prune_local(min_resolution)]
PruneImages(imgs, minimum) ==
    SetToSeq({k \in 1..Len(imgs) : PruneLocal(imgs[k], minimum)})

\* scrape_images filters the list by resolution
GuiFilter ==
    /\ keptGui = NotRun
    /\ keptGui' = FilterByResolution(images, min_resolution[1], min_resolution[2])
    /\ UNCHANGED nonPrune
    /\ UNCHANGED <<images, min_resolution, keptPrune, fileRes>>

\* prune_images is called on the list
Prune ==
    /\ keptPrune = NotRun
    /\ keptPrune' = PruneImages(images, min_resolution)
    /\ UNCHANGED nonPrune
    /\ UNCHANGED <<images, min_resolution, keptGui, fileRes>>

NextPrune ==
    \/ GuiFilter
    \/ Prune

SpecPrune == InitPrune /\ [][NextPrune]_vars

(***************************************************************************)
(* One run of the browser path of scrape_images: the crawl, the filter,    *)
(* the download.                                                           *)
(***************************************************************************)

\* a page with one image file, whose size is any; one item is wanted
InitBrowse ==
    /\ CrawlStart({1}, {1}, {FALSE}, MaxStale)
    /\ images = <<>>
    /\ min_resolution \in Resolutions
    /\ keptGui = NotRun
    /\ keptPrune = NotRun
    /\ fileRes \in [{1} -> Resolutions]
    /\ DlAtRest
    /\ RecAtRest
    /\ ExtraAtRest

\* for img in scraped_imgs: if img.id not in scraped_ids: ... append; if scraped
\* >= limit: break (the indices of the items taken, in list order)
RECURSIVE DedupById(_, _, _)
DedupById(imgs, k, lim) ==
    IF k > Len(imgs) \/ lim <= 0
      THEN <<>>
      ELSE IF \E j \in 1..(k - 1) : imgs[j].id = imgs[k].id
        THEN DedupById(imgs, k + 1, lim)
        ELSE <<k>> \o DedupById(imgs, k + 1, lim - 1)

\* the items of list imgs at the indices idx
Pick(imgs, idx) == [j \in 1..Len(idx) |-> imgs[idx[j]]]

\* the list imgs_data after the loop over scraped_imgs and the resolution
\* filter, as indices into the list patched_scrape returned
ScrapedAndFiltered(scraped, lim, res_x, res_y) ==
    LET taken == DedupById(scraped, 1, lim)
        kept == FilterByResolution(Pick(scraped, taken), res_x, res_y)
    IN [j \in 1..Len(kept) |-> taken[kept[j]]]

\* api_instance.scrape has returned: the loop over scraped_imgs, then the
\* resolution filter
BrowseFilter ==
    /\ pc = "done"
    /\ keptGui = NotRun
    /\ keptGui' = ScrapedAndFiltered(imgs_data, num, min_resolution[1],
                                      min_resolution[2])
    /\ UNCHANGED nonPrune
    /\ UNCHANGED <<images, min_resolution, keptPrune, fileRes>>

\* if imgs_data: downloader.download_concurrent(imgs_data, ...): the files of
\* the items left are written, and measure what the remote files measure
BrowseDownload ==
    /\ keptGui # NotRun
    /\ keptGui # <<>>
    /\ images = <<>>
    /\ images' = [j \in 1..Len(keptGui) |->
                    [resolution |-> fileRes[imgs_data[keptGui[j]].src.name],
                     has_local |-> TRUE]]
    /\ UNCHANGED nonPrune
    /\ UNCHANGED <<min_resolution, keptGui, keptPrune, fileRes>>

NextBrowse ==
    \/ NextCrawl
    \/ BrowseFilter
    \/ BrowseDownload

SpecBrowse == InitBrowse /\ [][NextBrowse]_vars

(***************************************************************************)
(* The recursive visual search of scrape_images.                           *)
(***************************************************************************)

Pins == 1..MaxLimit          \* the pins the source can list
NoPin == 0                   \* original_pin_id is None: the URL is no pin URL

\* the lists of distinct pins of length at most n
DistinctSeqs(n) ==
    {q \in UNION {[1..len -> Pins] : len \in 0..n} :
        \A i, j \in 1..Len(q) : i # j => q[i] # q[j]}

\* the URLs of a call: a board URL (pin = NoPin), or a URL of pin `pin` whose
\* id is followed by "/" (.../pin/123/) or ends the path (.../pin/123)
Urls == [pin : {NoPin}, slash : {TRUE}] \cup [pin : Pins, slash : BOOLEAN]

\* if '/pin/' in url: match = re.search(r'/pin/(\d+)/', url);
\* original_pin_id = match.group(1) if match else None
OriginalPinId(url) == IF url.pin # NoPin /\ url.slash THEN url.pin ELSE NoPin

\* new_url = f"https://se.pinterest.com/pin/{img.id}/visual-search/?..."
VisualSearchUrl(id) == [pin |-> id, slash |-> TRUE]

\* a scrape_images call: its recurse_factor, the pin its URL is of, its
\* original_pin_id, the number of items its pipeline run yielded, the items
\* its for loop has yet to visit, the items whose file the download did not
\* write, whether download_concurrent raised
Call(depth, url) ==
    [depth |-> depth, pin |-> url.pin, seed |-> OriginalPinId(url), at |-> "run",
     yield |-> 0, rest |-> <<>>, failed |-> {}, raised |-> FALSE]

Top == stack[Len(stack)]

\* what download_concurrent(..., fail_fast=False) can do with a batch: every
\* item downloads ("ok"), some items fail and are recorded ("partial"), a
\* systemic failure makes it raise ("raise"), and then the log of the project
\* may not open either ("raise, no log")
BatchOutcomes == {"ok", "partial", "raise", "raise, no log"}

\* what one pipeline run can meet: an outcome of the batch, or an exception of
\* api_instance.scrape ("crawl raises")
RunOutcomes == BatchOutcomes \cup {"crawl raises"}

InitRecWith(outcomeSet) ==
    /\ limit \in 1..MaxLimit
    /\ topDepth \in 0..MaxDepth
    /\ \E url \in Urls : stack = <<Call(topDepth, url)>>
    /\ runCount = 0
    /\ outcomes = outcomeSet
    /\ session_state = {}
    /\ CrawlAtRest
    /\ DlAtRest
    /\ PruneAtRest
    /\ ExtraAtRest

\* a source and a disk without failures
InitRec == InitRecWith({"ok"})

\* a source and a disk with failures
InitTree == InitRecWith(RunOutcomes)

\* the for loop over imgs_data is entered: if imgs_data: ... if recurse_factor > 0
EntersLoop(items, depth) == items # <<>> /\ depth > 0

\* the sets of items whose file download_concurrent can have failed to write
FailedSets(items, outcome) ==
    LET all == {items[i] : i \in 1..Len(items)} IN
    IF outcome = "ok" THEN {{}}
    ELSE IF outcome = "partial" THEN (SUBSET all) \ {{}}
    ELSE SUBSET all

\* one pipeline run of the innermost call: crawl, dedupe on id up to limit,
\* filter, download, log; it yields at most limit items. An exception of
\* the crawl, or of the log's open, leaves every active call.
PipelineRun ==
    /\ stack # <<>>
    /\ Top.at = "run"
    /\ runCount' = runCount + 1
    /\ \E outcome \in outcomes, items \in DistinctSeqs(limit) :
          IF outcome = "crawl raises" \/ (outcome = "raise, no log" /\ items # <<>>)
            THEN /\ stack' = <<>>
                 /\ session_state' =
                       (IF outcome = "raise, no log"
                          THEN session_state \cup {"error"} ELSE session_state)
            ELSE \E lost \in FailedSets(items, IF items = <<>> THEN "ok" ELSE outcome) :
                  /\ stack' = [stack EXCEPT ![Len(stack)] =
                       [@ EXCEPT !.yield = Len(items),
                                 !.rest = IF EntersLoop(items, Top.depth) THEN items ELSE <<>>,
                                 !.at = IF EntersLoop(items, Top.depth) THEN "loop" ELSE "ret",
                                 !.failed = lost,
                                 !.raised = (outcome = "raise" /\ items # <<>>)]]
                  /\ session_state' =
                       (IF outcome = "raise" /\ items # <<>>
                          THEN session_state \cup {"error"} ELSE session_state)
    /\ UNCHANGED nonRec
    /\ UNCHANGED <<limit, topDepth, outcomes>>

\* a recursion that passes recurse_factor on unchanged
ChildDepth_Same(depth) == depth

\* recurse_factor=recurse_factor - 1
ChildDepth(depth) == depth - 1

\* for img in imgs_data: skip the original pin, else scrape_images(new_url, ...)
RecurseNext ==
    /\ stack # <<>>
    /\ Top.at = "loop"
    /\ IF Top.rest = <<>>
         THEN stack' = [stack EXCEPT ![Len(stack)].at = "ret"]
         ELSE LET img == Head(Top.rest)
                  popped == [stack EXCEPT ![Len(stack)].rest = Tail(@)]
              IN IF img = Top.seed
                   THEN stack' = popped           \* continue
                   ELSE stack' = Append(popped, Call(ChildDepth(Top.depth),
                                                     VisualSearchUrl(img)))
    /\ UNCHANGED nonRec
    /\ UNCHANGED <<limit, topDepth, runCount, outcomes, session_state>>

\* the innermost call writes the cache, sets 'success' and returns
Return ==
    /\ stack # <<>>
    /\ Top.at = "ret"
    /\ stack' = SubSeq(stack, 1, Len(stack) - 1)
    /\ session_state' = session_state \cup {"success"}
    /\ UNCHANGED nonRec
    /\ UNCHANGED <<limit, topDepth, runCount, outcomes>>

NextRec ==
    \/ PipelineRun
    \/ RecurseNext
    \/ Return

SpecRec == InitRec /\ [][NextRec]_vars

SpecTree == InitTree /\ [][NextRec]_vars

(***************************************************************************)
(* One process: the calls of scrape_images and search_images, the patches  *)
(* they install, the download batch and the download log.                  *)
(***************************************************************************)

\* the lists imgs_data can be at the download step: distinct source URLs
Batches ==
    {q \in UNION {[1..len -> 1..MaxBatch] : len \in 0..MaxBatch} :
        \A i, j \in 1..Len(q) : i # j => q[i] # q[j]}

\* the source URLs are named in the order in which the process first meets
\* them: the URLs of list q that are not among the `seen` first ones are
\* seen + 1, seen + 2, ... in list order
FreshInOrder(q, seen) ==
    \A i \in 1..Len(q) :
        q[i] > seen =>
            q[i] = seen + 1 + Cardinality({j \in 1..(i - 1) : q[j] > seen})

\* the lists imgs_data can be at the download step of the next call
NextBatches == {q \in Batches : FreshInOrder(q, urlsSeen)}

\* the number of source URLs met when the URLs of list q are met too
SeenWith(q, seen) ==
    IF \E i \in 1..Len(q) : q[i] > seen
      THEN CHOOSE m \in {q[i] : i \in 1..Len(q)} : \A i \in 1..Len(q) : q[i] <= m
      ELSE seen

CallArgs ==
    [fn : {"scrape", "search"}, url_ok : BOOLEAN, name_ok : BOOLEAN,
     use_browser : BOOLEAN, cookies_ok : BOOLEAN, recurse : BOOLEAN]

\* a validation that tests the URL only
ConfigError_UrlOnly(a) == ~a.url_ok

\* if not url or not project_name: error, return; and in search_images
\* if use_browser: error, return
ConfigError(a) ==
    \/ ~a.url_ok
    \/ ~a.name_ok
    \/ a.fn = "search" /\ a.use_browser

\* fail_fast=True, the default in the signature of download_concurrent
DefaultFailFast == TRUE

\* a wrapper that enables fail-fast
PatchedFailFast_Enabled(requested) == TRUE

\* patched_download_concurrent: original_download_concurrent(..., fail_fast=False)
PatchedFailFast(requested) == FALSE

\* fail_fast as the original download_concurrent receives it when
\* Downloader.download_concurrent is called with fail_fast=requested
EffectiveFailFast(patches, requested) ==
    IF patches > 0 THEN PatchedFailFast(requested) ELSE requested

\* downloader.download_concurrent(imgs_data, ..., fail_fast=False)
BrowserFailFast == FALSE

\* dl.download_concurrent(to_download, output_dir, download_streams)
MediaFailFast(patches) == EffectiveFailFast(patches, DefaultFailFast)

\* a log that is rewritten by every run
AppendLog_Rewrite(old, lines) == lines

\* with open(log_file, "a"): for img in imgs_data: f.write(f"{img.src}\n")
AppendLog(old, lines) == old \o lines

BrowserCall == args.fn = "scrape" /\ args.use_browser

InitSess ==
    /\ spc = "idle"
    /\ dcPatches = 0
    /\ scrapePatched = FALSE
    /\ sessErr = "none"
    /\ sessOk = FALSE
    /\ args = NoArgs
    /\ created = FALSE
    /\ invoked = FALSE
    /\ recursed = FALSE
    /\ propagated = FALSE
    /\ batch = <<>>
    /\ failing = {}
    /\ fail_fast = FALSE
    /\ materialized = {}
    /\ failedRec = {}
    /\ aborted = FALSE
    /\ log = <<>>
    /\ logBefore = <<>>
    /\ calls = 0
    /\ urlsSeen = 0
    /\ inst = <<>>
    /\ EnrichAtRest
    /\ CrawlAtRest
    /\ DlAtRest
    /\ PruneAtRest
    /\ RecAtRest

\* a call starts
Enter(a) ==
    /\ spc = "idle"
    /\ calls < MaxCalls
    /\ calls' = calls + 1
    /\ args' = a
    /\ logBefore' = log
    /\ materialized' = {}
    /\ failedRec' = {}
    /\ aborted' = FALSE
    /\ propagated' = FALSE

\* the call returns before it has a batch to download
ReturnEarly(err, ok, made) ==
    /\ spc' = "idle"
    /\ sessErr' = (IF err = "none" THEN sessErr ELSE err)
    /\ sessOk' = (sessOk \/ ok)
    /\ created' = made
    /\ invoked' = FALSE
    /\ recursed' = FALSE
    /\ batch' = <<>>
    /\ failing' = {}
    /\ fail_fast' = FALSE
    /\ log' = log
    /\ urlsSeen' = urlsSeen

\* download_concurrent is called on a non-empty list
StartBatch(b, flag) ==
    /\ spc' = "downloading"
    /\ created' = TRUE
    /\ invoked' = TRUE
    /\ recursed' = FALSE
    /\ batch' = b
    /\ failing' \in SUBSET (1..Len(b))
    /\ fail_fast' = flag
    /\ urlsSeen' = SeenWith(b, urlsSeen)
    /\ UNCHANGED <<sessErr, sessOk, log>>

\* scrape_images is called: validation, the patches of the browser path, the
\* scraper, the cookies, the crawl; up to the call of the downloader
ScrapeImages ==
    /\ \E a \in CallArgs :
          /\ a.fn = "scrape"
          /\ Enter(a)
          /\ IF ConfigError(a)
               THEN /\ ReturnEarly("config", FALSE, FALSE)
                    /\ UNCHANGED <<dcPatches, scrapePatched>>
               ELSE IF a.use_browser
                 THEN /\ dcPatches' = dcPatches + 1
                      /\ scrapePatched' = TRUE
                      /\ IF ~a.cookies_ok
                           THEN ReturnEarly("cookies", FALSE, TRUE)
                           ELSE \E b \in NextBatches :
                                  IF b = <<>>
                                    THEN ReturnEarly("none", TRUE, TRUE)
                                    ELSE StartBatch(b, EffectiveFailFast(dcPatches + 1,
                                                                         BrowserFailFast))
                 ELSE /\ UNCHANGED <<dcPatches, scrapePatched>>
                      /\ IF ~a.cookies_ok
                           THEN ReturnEarly("cookies", FALSE, TRUE)
                           ELSE \E b \in NextBatches :
                                  IF b = <<>>
                                    THEN ReturnEarly("none", TRUE, TRUE)
                                    ELSE StartBatch(b, MediaFailFast(dcPatches))
    /\ UNCHANGED nonSess

\* search_images is called: validation, the scraper, the cookies, the search;
\* up to the call of the downloader
SearchImages ==
    /\ \E a \in CallArgs :
          /\ a.fn = "search"
          /\ Enter(a)
          /\ IF ConfigError(a)
               THEN ReturnEarly("config", FALSE, FALSE)
               ELSE IF ~a.cookies_ok
                 THEN ReturnEarly("cookies", FALSE, TRUE)
                 ELSE \E b \in NextBatches :
                        IF b = <<>>
                          THEN ReturnEarly("none", TRUE, TRUE)
                          ELSE StartBatch(b, MediaFailFast(dcPatches))
    /\ UNCHANGED <<dcPatches, scrapePatched>>
    /\ UNCHANGED nonSess

\* the items of the batch that are neither written nor failed
Pending == (1..Len(batch)) \ (materialized \cup failedRec)

\* a worker of download_concurrent finishes one item, in any order: the file
\* is written, or the download fails and the failure is recorded (fail-fast
\* disabled) or aborts the batch (fail-fast enabled)
Fetch ==
    /\ spc = "downloading"
    /\ ~aborted
    /\ \E i \in Pending :
          IF i \in failing
            THEN IF fail_fast
                   THEN /\ aborted' = TRUE
                        /\ UNCHANGED <<materialized, failedRec>>
                   ELSE /\ failedRec' = failedRec \cup {i}
                        /\ UNCHANGED <<materialized, aborted>>
            ELSE /\ materialized' = materialized \cup {i}
                 /\ UNCHANGED <<failedRec, aborted>>
    /\ UNCHANGED nonSess
    /\ UNCHANGED <<spc, dcPatches, scrapePatched, sessErr, sessOk, args, created,
                   invoked, recursed, propagated, batch, failing, fail_fast,
                   log, logBefore, calls, urlsSeen>>

\* download_concurrent returns or raises, and the call runs to its end:
\* the browser path catches the exception, writes the log, recurses, writes
\* the cache; the API path of scrape_images catches the exception and logs
\* the URLs of the cache; search_images lets the exception through
BatchEnd ==
    /\ spc = "downloading"
    /\ aborted \/ Pending = {}
    /\ spc' = "idle"
    /\ IF BrowserCall
         THEN /\ sessErr' = (IF aborted THEN "download" ELSE sessErr)
              /\ log' = AppendLog(log, batch)
              /\ recursed' \in (IF args.recurse THEN BOOLEAN ELSE {FALSE})
              /\ sessOk' = TRUE
              /\ UNCHANGED propagated
         ELSE IF aborted
           THEN /\ IF args.fn = "scrape"
                     THEN sessErr' = "scrape" /\ UNCHANGED propagated
                     ELSE propagated' = TRUE /\ UNCHANGED sessErr
                /\ UNCHANGED <<log, recursed, sessOk>>
           ELSE /\ sessOk' = TRUE
                /\ \E with_url \in BOOLEAN :
                      log' = (IF with_url THEN AppendLog(log, batch) ELSE log)
                /\ UNCHANGED <<sessErr, recursed, propagated>>
    /\ UNCHANGED nonSess
    /\ UNCHANGED <<dcPatches, scrapePatched, args, created, invoked, batch,
                   failing, fail_fast, materialized, failedRec, aborted,
                   logBefore, calls, urlsSeen>>

NextSess ==
    \/ ScrapeImages
    \/ SearchImages
    \/ Fetch
    \/ BatchEnd

SpecSess == InitSess /\ [][NextSess]_vars

(***************************************************************************)
(* The enrichers: _ScraperBase.add_captions_to_file and                    *)
(* _ScraperBase.add_captions_to_meta.                                      *)
(***************************************************************************)

Stems == 1..MaxStem

\* the caption files output_dir can hold
SidecarKeys == Stems \X {"txt", "json"}

\* the items of the list: the stem of local_path (0: no local_path), the alt
\* text ("": none), whether origin is set, and what the file is
EnrichItems ==
    [stem : {0} \cup Stems, alt : {"", "a"}, origin : BOOLEAN,
     kind : {"image", "gif", "video"}]

InitEnrich ==
    /\ epc = "idle"
    /\ extension = "txt"
    /\ eTotal = 0
    /\ eLeft = 0
    /\ processed = 0
    /\ eRaised = FALSE
    /\ eFailed = FALSE
    /\ skipped = FALSE
    /\ tagged = 0
    /\ sidecars \in [SidecarKeys -> {"absent", "old"}]
    /\ ecalls = 0
    /\ CrawlAtRest
    /\ DlAtRest
    /\ PruneAtRest
    /\ RecAtRest
    /\ SessAtRest
    /\ inst = <<>>

\* an enricher is called on a list of n items
EnrichCall ==
    /\ epc = "idle"
    /\ ecalls < MaxEnrichCalls
    /\ ecalls' = ecalls + 1
    /\ \E fn \in {"file", "meta"}, ext \in {"txt", "json", "other"}, n \in 0..MaxEnrich :
          /\ fn = "meta" => ext = "txt"
          /\ epc' = fn
          /\ extension' = ext
          /\ eTotal' = n
          /\ eLeft' = n
    /\ processed' = 0
    /\ eRaised' = FALSE
    /\ eFailed' = FALSE
    /\ skipped' = FALSE
    /\ tagged' = 0
    /\ UNCHANGED sidecars
    /\ UNCHANGED nonEnrich

\* a test that never finds the caption file
SidecarExists_Never(stem, ext) == FALSE

\* caption_path.exists(), caption_path = output_dir / f"{stem}.{extension}"
SidecarExists(stem, ext) ==
    <<stem, ext>> \in SidecarKeys /\ sidecars[<<stem, ext>>] # "absent"

\* what the body of the loop of add_captions_to_file does with an item:
\* nothing (continue, or txt without alt text), a write, or the ValueError
FileStep(img, ext) ==
    IF img.stem = 0 THEN "continue"
    ELSE IF SidecarExists(img.stem, ext) THEN "exists"
    ELSE IF ext = "json" THEN "write"
    ELSE IF ext = "txt" THEN (IF img.alt # "" THEN "write" ELSE "nothing")
    ELSE "raise"

\* f.write(json.dumps(img.to_dict(), indent=4)), f.write(img.alt)
Caption(img, ext) == IF ext = "json" THEN "json" ELSE img.alt

\* the loop passes to the next item
NextItem ==
    /\ processed' = processed + 1
    /\ eLeft' = eLeft - 1
    /\ epc' = epc

\* the exception leaves the loop and the call
RaiseOut ==
    /\ eRaised' = TRUE
    /\ epc' = "idle"
    /\ UNCHANGED <<processed, eLeft>>

\* one iteration of the loop of add_captions_to_file; open or write can fail
\* with an OSError, which leaves no file or a file cut short
FileItem ==
    /\ epc = "file"
    /\ eLeft > 0
    /\ \E img \in EnrichItems, ok \in BOOLEAN :
          LET step == FileStep(img, extension) IN
          IF step = "write"
            THEN IF ok
                   THEN /\ sidecars' = [sidecars EXCEPT ![<<img.stem, extension>>] =
                                           Caption(img, extension)]
                        /\ NextItem
                        /\ UNCHANGED <<eRaised, eFailed, skipped>>
                   ELSE /\ \E left \in {sidecars[<<img.stem, extension>>], "partial"} :
                              sidecars' = [sidecars EXCEPT ![<<img.stem, extension>>] = left]
                        /\ eFailed' = TRUE
                        /\ RaiseOut
                        /\ UNCHANGED skipped
            ELSE /\ ok
                 /\ UNCHANGED sidecars
                 /\ IF step = "raise"
                      THEN RaiseOut /\ UNCHANGED <<eFailed, skipped>>
                      ELSE /\ NextItem
                           /\ skipped' = (skipped \/ step = "exists")
                           /\ UNCHANGED <<eRaised, eFailed>>
    /\ UNCHANGED <<extension, eTotal, tagged, ecalls>>
    /\ UNCHANGED nonEnrich

\* the body of the try of add_captions_to_meta writes metadata for the item
MetaWrites(img) ==
    /\ img.kind = "image"
    /\ img.stem # 0
    /\ img.origin \/ img.alt # ""

\* one iteration of the loop of add_captions_to_meta: the write can fail,
\* except Exception logs it
MetaItem ==
    /\ epc = "meta"
    /\ eLeft > 0
    /\ \E img \in EnrichItems, ok \in BOOLEAN :
          IF MetaWrites(img)
            THEN /\ tagged' = (IF ok THEN tagged + 1 ELSE tagged)
                 /\ eFailed' = (eFailed \/ ~ok)
            ELSE /\ ok
                 /\ UNCHANGED <<tagged, eFailed>>
    /\ NextItem
    /\ UNCHANGED <<extension, eTotal, eRaised, skipped, sidecars, ecalls>>
    /\ UNCHANGED nonEnrich

\* the loop is over: the call returns
EnrichReturn ==
    /\ epc \in {"file", "meta"}
    /\ eLeft = 0
    /\ epc' = "idle"
    /\ UNCHANGED <<extension, eTotal, eLeft, processed, eRaised, eFailed, skipped,
                   tagged, sidecars, ecalls>>
    /\ UNCHANGED nonEnrich

NextEnrich ==
    \/ EnrichCall
    \/ FileItem
    \/ MetaItem
    \/ EnrichReturn

SpecEnrich == InitEnrich /\ [][NextEnrich]_vars

(***************************************************************************)
(* Properties of the registry.                                             *)
(***************************************************************************)

Range(f) == {f[i] : i \in DOMAIN f}

\* C1: a run that starts after a run that returned normally, with no file
\* deleted in between, hands no item to the downloader.
C1_SecondRunSubmitsNothing ==
    (startOk /\ startDeleted = {}) => submitted = <<>>

\* the item at index k of the media list is already satisfied by the registry
Satisfied(k) ==
    /\ HasKey(registry, media[k].id)
    /\ PathExists(Get(registry, media[k].id))

\* C2: the filter step skips an item, setting its local_path to the registered
\* path, if and only if its id is a key of the loaded registry and the recorded
\* path exists on disk; every other item is put in to_download (in list order)
\* and its id, if it was a key, is removed from the registry; no other entry
\* changes; and the downloader is handed exactly to_download.
C2_FilterSkipsIffRegisteredOnDisk ==
    [][ /\ dpc = "filter" =>
             /\ \A k \in 1..Len(media) :
                   IF Satisfied(k)
                     THEN /\ k \notin Range(to_download')
                          /\ media'[k].local_path = Get(registry, media[k].id)
                     ELSE /\ k \in Range(to_download')
                          /\ media'[k].local_path = NoPath
                          /\ ~HasKey(registry', media[k].id)
             /\ \A i, j \in 1..Len(to_download') :
                   i < j => to_download'[i] < to_download'[j]
             /\ \A i \in 1..Len(registry) :
                   (\A k \in 1..Len(media) :
                       media[k].id = registry[i][1] => Satisfied(k))
                   => \E j \in 1..Len(registry') : registry'[j] = registry[i]
        /\ dpc = "download" => submitted' = IdsOf(media, to_download)
      ]_vars

\* the filter has skipped one item and re-queued another whose file was deleted
C2_Witness ==
    /\ dpc = "download"
    /\ \E k \in 1..Len(media) : media[k].local_path # NoPath
    /\ \E j \in 1..Len(to_download) :
          /\ FileOf(ProjectDir, media[to_download[j]].id) \in startDeleted
          /\ ~HasKey(registry, media[to_download[j]].id)
    /\ Len(registry) > 0

\* C3: when exactly one registered file was deleted since a run that returned
\* normally, the next download_media run hands exactly that item to the
\* downloader and leaves a registry entry for it whose path is on disk.
C3_StaleEntryRepaired ==
    ( /\ runKind = "media"
      /\ dpc = "idle" /\ lastOk /\ deleted = {}
      /\ startOk
      /\ Cardinality(startDeleted) = 1
      /\ startDeleted \subseteq Range(startReg) )
    => \E p \in startDeleted :
          /\ submitted # <<>>
          /\ \A j \in 1..Len(submitted) : FileOf(ProjectDir, submitted[j]) = p
          /\ \E t \in DOMAIN regFile : regFile[t] = p /\ PathExists(p)

(***************************************************************************)
(* Properties of the resolution filter and of the recursion.               *)
(***************************************************************************)

\* C9: an item is kept iff its width reaches minX and its height reaches minY:
\* the resolution equal to the minimum is kept, one pixel less in either
\* dimension is dropped, and the minimum (0,0) keeps every item. For
\* prune_images this is stated of the items that have a local file.
C9_KeptIffBothDimensionsReachMinimum ==
    /\ keptGui # NotRun =>
          /\ \A k \in 1..Len(images) :
                k \in Range(keptGui) <=>
                   /\ images[k].resolution[1] >= min_resolution[1]
                   /\ images[k].resolution[2] >= min_resolution[2]
          /\ \A i, j \in 1..Len(keptGui) : i < j => keptGui[i] < keptGui[j]
    /\ keptPrune # NotRun =>
          \A k \in 1..Len(images) :
             images[k].has_local =>
                (k \in Range(keptPrune) <=>
                   /\ images[k].resolution[1] >= min_resolution[1]
                   /\ images[k].resolution[2] >= min_resolution[2])

\* the filter kept an item at the minimum and dropped one a pixel narrower
C9_Witness ==
    /\ keptGui # NotRun
    /\ min_resolution = <<MaxRes, 1>>
    /\ Len(images) = 2
    /\ images[1].resolution = <<MaxRes, 1>>
    /\ images[2].resolution = <<MaxRes - 1, 1>>
    /\ keptGui = <<1>>

RECURSIVE Power(_, _)
Power(b, e) == IF e = 0 THEN 1 ELSE b * Power(b, e - 1)

RECURSIVE GeoSum(_, _)
GeoSum(b, e) == IF e = 0 THEN 1 ELSE Power(b, e) + GeoSum(b, e - 1)

\* C10: a top-level run of depth D whose runs yield at most L = limit items
\* performs at most L^0 + ... + L^D pipeline runs; the calls nest at most D
\* deep; a call recurses only if its run yielded an item and its depth is > 0;
\* with D = 0 there is one run and no recursive call.
C10_RecursionBounded ==
    /\ runCount <= GeoSum(limit, topDepth)
    /\ Len(stack) <= topDepth + 1
    /\ \A i \in 1..Len(stack) :
          /\ stack[i].yield <= limit
          /\ stack[i].depth = topDepth - (i - 1)
          /\ i < Len(stack) => stack[i].yield > 0 /\ stack[i].depth > 0
    /\ topDepth = 0 => (stack = <<>> => runCount = 1)
    /\ stack = <<>> => runCount >= 1

\* a top-level run of the largest depth and limit has returned after runs at
\* every level, more than one of them at the deepest
C10_Witness ==
    /\ stack = <<>>
    /\ topDepth = MaxDepth
    /\ limit = MaxLimit
    /\ runCount > 2 * MaxLimit

\* the call at position i + 1 of the stack is the child of the call at i
Parents == 1..(Len(stack) - 1)

\* C23: a call whose URL is a URL of pin P launches no child run for P; and
\* no call ends with an item other than P left unvisited by its loop.
C23_NoSelfLoop ==
    /\ [](\A i \in Parents :
             stack[i].pin # NoPin => stack[i + 1].pin # stack[i].pin)
    /\ [][\A i \in 1..Len(stack) :
             (i > Len(stack') /\ stack[i].at = "loop") =>
                 \A k \in 1..Len(stack[i].rest) :
                     stack[i].rest[k] = stack[i].pin]_vars

\* C24: a child run is launched for an item only if the download of the parent
\* run wrote the file of that item, and for no item if the download raised.
C24_OnlyDownloadedReseeded ==
    \A i \in Parents :
        /\ stack[i + 1].pin \notin stack[i].failed
        /\ ~stack[i].raised

\* every active call has found the pin of its URL (or has a board URL)
SeedsFound == \A i \in 1..Len(stack) : stack[i].seed = stack[i].pin

\* C27: in a top-level invocation of depth 2 or more, whose calls have all
\* found the pin of their URL, no pin seeds two of the pipeline runs of the
\* calls that are active at one time (pin A lists B as related, B lists A).
C27_NoPinSeededTwice ==
    (topDepth >= 2 /\ SeedsFound) =>
        \A i, j \in 1..Len(stack) :
            (i < j /\ stack[i].pin # NoPin) => stack[i].pin # stack[j].pin

\* C28: when the top-level call has ended, the session messages do not hold
\* both 'error' and 'success'.
C28_ErrorExcludesSuccess ==
    stack = <<>> => ~({"error", "success"} \subseteq session_state)

(***************************************************************************)
(* Properties of the crawl loop.                                           *)
(***************************************************************************)

Returned == pc = "done"      \* patched_scrape has returned imgs_data

IsPrefix(s, t) == Len(s) <= Len(t) /\ SubSeq(t, 1, Len(s)) = s

\* C4: the sequence returned by the crawl loop holds no two candidates with
\* the same id.
C4_NoTwoCandidatesShareId ==
    Returned => \A i, j \in 1..Len(imgs_data) :
                    i # j => imgs_data[i].id # imgs_data[j].id

\* C5: whatever the page does, stale-element errors included, the loop runs
\* at most 800 passes.
C5_AtMostCeilingPasses == passes <= ScrollCeiling

\* no exception was raised so far (none cut a pass short, none was swallowed)
NoException == stales = 0 /\ ~sockErr /\ pc # "raised"

\* the source of C6: nothing new after the first pass, target not reached
StalledSource ==
    NoException /\ ~newAfterFirst /\ Cardinality(unique_results) < num

C7_SocketErrorReturnsCollected ==
    [][sockErr => imgs_data' = imgs_data]_vars

\* C8: the collected sequence never holds more than num candidates, grows only
\* by appending a candidate at the step that first discovers its src, and does
\* not grow once it holds num candidates.
C8_BoundedInDiscoveryOrder ==
    [][ /\ Len(imgs_data') <= num
        /\ IsPrefix(imgs_data, imgs_data')
        /\ Len(imgs_data) >= num => imgs_data' = imgs_data
        /\ imgs_data' # imgs_data =>
              /\ Len(imgs_data') = Len(imgs_data) + 1
              /\ imgs_data'[Len(imgs_data')].src \notin unique_results
              /\ unique_results' = unique_results \cup {imgs_data'[Len(imgs_data')].src}
      ]_vars

C8_Witness ==
    /\ Returned
    /\ num = MaxNum
    /\ Len(imgs_data) = num
    /\ passes > StallThreshold

\* the scan of a pass ends: the pass reaches the stall test, or a
\* stale-element error cuts the scan short
ScanEnds ==
    \/ pc = "post"
    \/ pc \in {"divs", "imgs"} /\ pc' = "loop"

\* the candidates the pass has added
NewInPass == Cardinality(unique_results) - current_unique

\* C21: the stall counter counts the most recent consecutive passes that
\* added no candidate: when the scan of a pass ends, by the stall test or by a
\* stale-element error, a pass that added a candidate leaves the counter at 0
\* and a pass that added none leaves it one higher than it was.
C21_StallCounterCountsBarrenPasses ==
    [][ScanEnds =>
          no_new_scrolls' = (IF NewInPass > 0 THEN 0 ELSE no_new_scrolls + 1)]_vars

\* the target count, at least 1, is reached
TargetReached == num >= 1 /\ Cardinality(unique_results) >= num

\* C26: once the target count is reached the loop takes no scroll step and no
\* load-more step and starts no further pass.
C26_NoScrollAfterTarget ==
    [][TargetReached =>
          /\ scroll_count' = scroll_count
          /\ ~(pc = "more" /\ pc' # "more")
          /\ passes' = passes]_vars

(***************************************************************************)
(* Properties of one run of the browser path.                              *)
(***************************************************************************)

\* C22: when the resolution filter of a browser-path run has run, every item
\* the crawl returned (first of its id) whose file measures at least the
\* minimum in both dimensions is in the list that goes to the download.
C22_FilterUsesMeasuredResolution ==
    keptGui # NotRun =>
        \A k \in Range(DedupById(imgs_data, 1, num)) :
            MeetsMinimum(fileRes[imgs_data[k].src.name], min_resolution[1],
                         min_resolution[2])
              => k \in Range(keptGui)

(***************************************************************************)
(* Properties of the download batch, the calls and the log.                *)
(***************************************************************************)

\* a call that invoked the downloader has run to its end, and exactly one
\* item of its batch failed
OneFailed == spc = "idle" /\ invoked /\ Cardinality(failing) = 1

Others == (1..Len(batch)) \ failing

\* C11 as stated: of a batch of N items in which exactly one item K fails, a
\* run with fail-fast disabled (the browser path) does not abort and ends with
\* the N-1 other items materialized and one failure recorded against K; a run
\* with fail-fast enabled materializes fewer than N-1 items.
C11_FailFastFewerThanOthers ==
    OneFailed =>
        /\ (BrowserCall \/ ~fail_fast) =>
              /\ ~aborted
              /\ materialized = Others
              /\ failedRec = failing
        /\ fail_fast => Cardinality(materialized) < Len(batch) - 1

\* C11 amended: of a batch of N items in which exactly one item K fails, a
\* run with fail-fast disabled (the browser path) does not abort and ends with
\* the N-1 other items materialized and one failure recorded against K; a run
\* with fail-fast enabled aborts the batch and materializes at most N-1
\* items, K not among them.
C11_FailFastSemantics ==
    OneFailed =>
        /\ (BrowserCall \/ ~fail_fast) =>
              /\ ~aborted
              /\ materialized = Others
              /\ failedRec = failing
        /\ fail_fast =>
              /\ aborted
              /\ materialized \subseteq Others
              /\ Cardinality(materialized) <= Len(batch) - 1
              /\ failedRec = {}

\* a browser-path batch of the largest size ended with one failure recorded
\* and every other item written
C11_Witness ==
    /\ OneFailed
    /\ BrowserCall
    /\ Len(batch) = MaxBatch
    /\ failedRec = failing
    /\ materialized = Others

\* the arguments of the last call are a configuration error: an empty URL or
\* query, an empty project name, or a search with browser scraping
BadConfig ==
    /\ args.fn # "none"
    /\ \/ ~args.url_ok
       \/ ~args.name_ok
       \/ args.fn = "search" /\ args.use_browser

\* C18: a call whose configuration is in error records the error and returns
\* without creating a scraper, without invoking the downloader and without
\* launching a recursive run.
C18_ConfigErrorStopsPipeline ==
    BadConfig =>
        /\ spc = "idle"
        /\ sessErr = "config"
        /\ ~created
        /\ ~invoked
        /\ ~recursed

\* a search with browser scraping, URL and project name given, was refused
\* after an earlier call had created a scraper and downloaded
C18_Witness ==
    /\ BadConfig
    /\ args.fn = "search"
    /\ args.url_ok
    /\ args.name_ok
    /\ sessErr = "config"
    /\ sessOk
    /\ calls = MaxCalls

\* C19: the log before a call is a prefix of the log after it, and a
\* browser-path run that produced k > 0 items appended exactly its k source
\* URLs in item order, duplicates of earlier lines included.
C19_LogAppendOnly ==
    /\ IsPrefix(logBefore, log)
    /\ (spc = "idle" /\ BrowserCall /\ invoked) => log = logBefore \o batch

\* a second browser-path run appended to a non-empty log a URL the log
\* already held
C19_Witness ==
    /\ spc = "idle"
    /\ BrowserCall
    /\ invoked
    /\ logBefore # <<>>
    /\ Len(log) = Len(logBefore) + Len(batch)
    /\ \E i \in 1..Len(logBefore) : \E j \in (Len(logBefore) + 1)..Len(log) :
          log[i] = log[j]

\* C20: a call leaves download_concurrent (the fail-fast default a later
\* download_media call gets) and the driver's scrape as they were before it.
C20_CallsShareOnlyFiles ==
    [][/\ MediaFailFast(dcPatches') = MediaFailFast(dcPatches)
       /\ scrapePatched' = scrapePatched]_vars

(***************************************************************************)
(* Properties of the registry file.                                        *)
(***************************************************************************)

\* C12: whatever state downloaded.json is in, no run of download_media fails
\* on the registry; and when the write of the registry fails, download_media
\* returns the media list with the local paths it set.
C12_RegistryIONeverFails ==
    /\ failure # "registry"
    /\ (runKind = "media" /\ dpc = "idle" /\ failure = "save") =>
          /\ lastOk
          /\ \A k \in 1..Len(media) : media[k].local_path # NoPath

DownloaderRaised == runKind = "media" /\ dpc = "idle" /\ failure = "download"

\* C25: when download_concurrent raises in download_media, the call does not
\* return normally and downloaded.json is what it was when the call started:
\* no step of the call up to the raise, the raise included, changes the file,
\* so neither new entries nor the removals of the filter are written.
C25_RaiseLeavesRegistryFile ==
    /\ [](DownloaderRaised => (regFile = startReg /\ ~lastOk))
    /\ [][(dpc' \in {"filter", "download"} \/ (dpc = "download" /\ failure' = "download"))
            => (regFile' = regFile /\ fileShape' = fileShape)]_vars

\* the filter of a run removed the entry of a deleted file from the registry
\* it had loaded, the downloader raised, and the file still holds the entry
C25_Witness ==
    /\ DownloaderRaised
    /\ idKind = "str"
    /\ startReg # <<>>
    /\ regFile = startReg
    /\ startDeleted # {}
    /\ submitted # <<>>
    /\ \E t \in DOMAIN regFile : ~HasKey(registry, ItemId("str", t))

\* the last run is a download_media run that started after a crash
AfterCrash == runKind = "media" /\ startFailure = "crash"

C13_ConcurrentProjectsLoseNoEntry ==
    \A p \in Instances : inst[p].wrote \subseteq DOMAIN regFile

(***************************************************************************)
(* Properties of the enrichers.                                            *)
(***************************************************************************)

\* C16: a call of an enricher in which the write for one item failed has
\* visited every item of its list and has not raised.
C16_EnrichersProcessItemsIndependently ==
    (epc = "idle" /\ eFailed) => (processed = eTotal /\ ~eRaised)

\* C17: no step of add_captions_to_file changes a caption file that exists,
\* in either format and over repeated calls.
C17_SidecarNeverOverwritten ==
    [][\A key \in SidecarKeys :
          (epc = "file" /\ sidecars[key] # "absent") => sidecars'[key] = sidecars[key]]_vars

\* a later call of add_captions_to_file has skipped an item whose caption
\* file exists and has written the caption file of another
C17_Witness ==
    /\ epc = "idle"
    /\ ecalls = MaxEnrichCalls
    /\ skipped
    /\ ~eRaised
    /\ \E k1, k2 \in SidecarKeys :
          /\ sidecars[k1] = "old"
          /\ sidecars[k2] \in {"a", "json"}
          /\ k1[2] = extension
          /\ k2[2] = extension
====
